---- MODULE Spec2Model ----
(***************************************************************************)
(* A model of the rollup-aware transaction core of l2geth:                 *)
(*   - core/types/transaction.go (src/localenv.sh, lines 73 to 738): the   *)
(*     Transaction record, its memoized hash and size, AsMessage,          *)
(*     WithSignature and the TransactionsByPriceAndNonce selector;         *)
(*   - rollup/fees (exercised by src/unnamed/part_000): the gas-limit      *)
(*     encoding and the PaysEnough fee check.                              *)
(* Each component has its own specification over its own variables; the    *)
(* variables of the other components stay at their idle value.             *)
(***************************************************************************)
EXTENDS Integers, Sequences, FiniteSets, TLC

VARIABLES
    \* TransactionsByPriceAndNonce
    txs,        \* t.txs: account -> remaining transactions (a Go map)
    heads,      \* t.heads: the price heap, heads[1] is Go's heads[0]
    peeked,     \* what the last Peek returned: <<>> not called since the
                \* last Shift/Pop, <<"nil">> for nil, <<"tx", t>> for t
    fault,      \* TRUE once a call has panicked (index out of range)
    input,      \* the map handed to NewTransactionsByPriceAndNonce
    emitted,    \* the heads the caller consumed, in order (by Shift or Pop)
    popped,     \* the accounts whose head was removed by Pop
    \* rollup/fees: the gas-limit encoding
    feeIn,      \* the arguments of EncodeTxGasLimit
    feeEnc,     \* <<>> or <<the encoded gas limit>>
    feeDec,     \* <<>> or <<L2Gas() of a transaction carrying feeEnc>>
    feeL1,      \* <<>> or <<calculateL1GasLimit of the data and overhead>>
    ceilIn,     \* the arguments [a, b] of Ceilmod
    ceilOut,    \* the results of Ceilmod(a, b) and of Ceilmod on that result
    \* rollup/fees: PaysEnough
    paysIn,     \* the PaysEnoughOpts
    paysOut,    \* "pending" or the error PaysEnough returned
    \* decoding a Transaction
    wire,       \* the txdata a well-formed encoding carries
    decOut,     \* <<>> or <<r>>, r the path taken and the error returned
    \* Transaction
    txData,     \* tx.data: the core fields
    txMeta,     \* tx.meta: the TransactionMeta
    txHash,     \* tx.hash: <<>> (nothing stored) or <<hash>>
    txSize,     \* tx.size: <<>> (nothing stored) or <<size>>
    asMsg,      \* <<>> or <<r>>, r the outcome of the last AsMessage
    \* concurrent callers of Hash() and Size()
    callers,    \* caller -> [op, pc, v, ret]
    coreMutated,\* TRUE once SetNonce has changed a core field
    \* WithSignature
    cpy,        \* <<>> (nil) or <<the record the last WithSignature returned>>
    sigErr      \* "pending" or the error the last WithSignature returned

selVars == <<txs, heads, peeked, fault, input, emitted, popped>>
feeVars == <<feeIn, feeEnc, feeDec, feeL1, ceilIn, ceilOut>>
paysVars == <<paysIn, paysOut>>
decVars == <<wire, decOut>>
txVars == <<txData, txMeta, txHash, txSize, asMsg>>
cacheVars == <<callers, coreMutated>>
sigVars == <<cpy, sigErr>>

vars == <<selVars, feeVars, paysVars, decVars, txVars, cacheVars, sigVars>>

\* The idle value of each component's variables.
SelIdle ==
    /\ txs = <<>> /\ heads = <<>> /\ peeked = <<>> /\ fault = FALSE
    /\ input = <<>> /\ emitted = <<>> /\ popped = {}
FeeIdle ==
    /\ feeIn = <<>> /\ feeEnc = <<>> /\ feeDec = <<>> /\ feeL1 = <<>>
    /\ ceilIn = <<>> /\ ceilOut = <<>>
PaysIdle == paysIn = <<>> /\ paysOut = "pending"
DecIdle == wire = <<>> /\ decOut = <<>>
TxIdle ==
    /\ txData = <<>> /\ txMeta = <<>> /\ txHash = <<>> /\ txSize = <<>>
    /\ asMsg = <<>>
CacheIdle == callers = <<>> /\ coreMutated = FALSE
SigIdle == cpy = <<>> /\ sigErr = "pending"

-----------------------------------------------------------------------------
(* Bounds and domains of the selector model.                               *)

\* The largest number of transactions in an input map keyed by the senders.
MaxTxs == 4

\* The largest number of transactions in an input map with any keys.
MaxAnyTxs == 3

\* The accounts (common.Address values) of the model.
Address == {"a1", "a2", "a3"}

\* The keys of a map whose keys need not be the senders.
AnyKeys == {"a1", "a2"}

\* The gas prices of the model's transactions.
Prices == {1, 2}

\* A transaction of the list stored under key k at position i. Transactions
\* are pointers in the code: key and idx give each one its identity.
MkTx(k, i, f, p) ==
    [key |-> k, idx |-> i, from |-> f, nonce |-> i - 1, price |-> p]

\* The lists of n transactions that may be stored under key k when the
\* transactions are signed by the accounts in senders; nonces increase
\* along a list.
ListsFor(k, senders, n) ==
    { [i \in 1..n |-> MkTx(k, i, f[i], p[i])] :
        f \in [1..n -> senders], p \in [1..n -> Prices] }

\* The maps with the given keys and at most budget transactions in all; the
\* list of key k holds transactions of k when keyed, of any account if not.
RECURSIVE InputMaps(_, _, _)
InputMaps(keys, keyed, budget) ==
    IF keys = {} THEN {<<>>}
    ELSE LET k == CHOOSE x \in keys : TRUE
         IN  UNION { { [x \in DOMAIN m \cup {k} |->
                          IF x = k THEN lst ELSE m[x]] :
                        lst \in ListsFor(k, IF keyed THEN {k} ELSE Address, n),
                        m \in InputMaps(keys \ {k}, keyed, budget - n) } :
                     n \in 0..budget }

\* Input maps keyed by the true sender of every transaction of the list.
KeyedInputs == InputMaps(Address, TRUE, MaxTxs)

\* Input maps whose keys need not be the senders of their transactions.
AnyInputs == InputMaps(AnyKeys, FALSE, MaxAnyTxs)

\* Every transaction of an input map.
InputTxs(m) == UNION { { m[k][i] : i \in 1..Len(m[k]) } : k \in DOMAIN m }

-----------------------------------------------------------------------------
(* Sender(signer, tx): the account recovered from the signature.           *)
Sender(tx) == tx.from

\* Less ordering the cheaper transaction first.
LessCheaperFirst(h, i, j) == h[i + 1].price < h[j + 1].price

(* TxByPrice.Less on Go indices i, j.                                      *)
Less(h, i, j) == h[i + 1].price > h[j + 1].price

(* TxByPrice.Swap on Go indices i, j.                                      *)
Swap(h, i, j) ==
    [x \in 1..Len(h) |-> IF x = i + 1 THEN h[j + 1]
                         ELSE IF x = j + 1 THEN h[i + 1] ELSE h[x]]

(* container/heap down(h, i0, n): the heap after sifting i down and the    *)
(* index the element ended at.                                             *)
RECURSIVE down(_, _, _)
down(h, i, n) ==
    LET j1 == 2 * i + 1
        j  == IF j1 + 1 < n /\ Less(h, j1 + 1, j1) THEN j1 + 1 ELSE j1
    IN  IF j1 >= n THEN [h |-> h, i |-> i]
        ELSE IF ~Less(h, j, i) THEN [h |-> h, i |-> i]
        ELSE down(Swap(h, i, j), j, n)

(* container/heap up(h, j).                                                *)
RECURSIVE up(_, _)
up(h, j) ==
    LET i == (j - 1) \div 2
    IN  IF j = 0 \/ i = j \/ ~Less(h, j, i) THEN h
        ELSE up(Swap(h, i, j), i)

(* heap.Init(&heads): down(h, i, n) for i = n/2 - 1 .. 0.                  *)
RECURSIVE heapInitFrom(_, _)
heapInitFrom(h, i) ==
    IF i < 0 THEN h ELSE heapInitFrom(down(h, i, Len(h)).h, i - 1)

heapInit(h) == heapInitFrom(h, (Len(h) \div 2) - 1)

(* heap.Fix(&heads, i).                                                    *)
heapFix(h, i) ==
    LET d == down(h, i, Len(h))
    IN  IF d.i > i THEN d.h ELSE up(h, i)

(* heap.Pop(&heads) on a non-empty heap: swap the root to the end, sift    *)
(* the new root down, and TxByPrice.Pop cuts the last element off.         *)
heapPop(h) ==
    LET n == Len(h) - 1
    IN  SubSeq(down(Swap(h, 0, n), 0, n).h, 1, n)

-----------------------------------------------------------------------------
(* A Go map as a function on its key set.                                  *)
MapSet(m, k, v) == [x \in DOMAIN m \cup {k} |-> IF x = k THEN v ELSE m[x]]
MapDelete(m, k) == [x \in DOMAIN m \ {k} |-> m[x]]

(* The loop of NewTransactionsByPriceAndNonce over the map it mutates.     *)
(* pending: the entries the range still has to produce; created: entries   *)
(* the loop body created, which a Go range may produce or skip. The result *)
(* is the set of (txs, heads) the loop can end with, heads not yet a heap. *)
RECURSIVE rangeTxs(_, _, _, _)
rangeTxs(m, h, pending, created) ==
    LET visit(from) ==
            LET accTxs == m[from]
                acc    == Sender(accTxs[1])
                m1     == MapSet(m, acc, Tail(accTxs))
                m2     == IF from # acc THEN MapDelete(m1, from) ELSE m1
                new    == IF acc \in DOMAIN m THEN {} ELSE {acc}
            IN  IF Len(accTxs) > 0
                THEN rangeTxs(m2, Append(h, accTxs[1]),
                              pending \ {from}, (created \ {from}) \cup new)
                ELSE rangeTxs(m, h, pending \ {from}, created \ {from})
        stop == IF pending = {} THEN {[txs |-> m, heads |-> h]} ELSE {}
    IN  stop \cup UNION { visit(from) : from \in pending \cup created }

(* NewTransactionsByPriceAndNonce(signer, txs): every selector the         *)
(* constructor can return for the map m.                                   *)
NewTransactionsByPriceAndNonce(m) ==
    { [txs |-> r.txs, heads |-> heapInit(r.heads)] :
        r \in rangeTxs(m, <<>>, DOMAIN m, {}) }

-----------------------------------------------------------------------------
(* The selector's operations.                                              *)

SelInitFrom(inputs) ==
    /\ input \in inputs
    /\ \E s \in NewTransactionsByPriceAndNonce(input) :
          /\ txs = s.txs
          /\ heads = s.heads
    /\ peeked = <<>>
    /\ fault = FALSE
    /\ emitted = <<>>
    /\ popped = {}
    /\ FeeIdle /\ PaysIdle /\ DecIdle /\ TxIdle /\ CacheIdle /\ SigIdle

\* Peek without the emptiness check, handing out a transaction regardless.
PeekResultNoNil ==
    IF Len(heads) = 0 THEN <<"tx", MkTx("a1", 1, "a1", 1)>>
    ELSE <<"tx", heads[1]>>

(* Peek(): nil on an empty heap, heads[0] otherwise.                       *)
PeekResult ==
    IF Len(heads) = 0 THEN <<"nil">> ELSE <<"tx", heads[1]>>

Peek ==
    /\ ~fault
    /\ peeked' = PeekResult
    /\ UNCHANGED <<txs, heads, fault, input, emitted, popped>>
    /\ UNCHANGED <<feeVars, paysVars, decVars, txVars, cacheVars, sigVars>>

\* Shift putting the next transaction in the head slot without heap.Fix.
ShiftHeadsNoFix(h, m) ==
    LET acc == Sender(h[1])
    IN  IF acc \in DOMAIN m /\ Len(m[acc]) > 0
        THEN [h EXCEPT ![1] = m[acc][1]]
        ELSE heapPop(h)

(* The heap and the map after Shift() on a non-empty heap.                 *)
ShiftHeads(h, m) ==
    LET acc == Sender(h[1])
    IN  IF acc \in DOMAIN m /\ Len(m[acc]) > 0
        THEN heapFix([h EXCEPT ![1] = m[acc][1]], 0)
        ELSE heapPop(h)

\* Shift leaving the account's list as it is.
ShiftTxsKeep(h, m) == m

\* Shift cutting the account's list one element too far.
ShiftTxsSkip(h, m) ==
    LET acc == Sender(h[1])
    IN  IF acc \in DOMAIN m /\ Len(m[acc]) > 0
        THEN [m EXCEPT ![acc] = SubSeq(m[acc], 3, Len(m[acc]))]
        ELSE m

ShiftTxs(h, m) ==
    LET acc == Sender(h[1])
    IN  IF acc \in DOMAIN m /\ Len(m[acc]) > 0
        THEN [m EXCEPT ![acc] = Tail(m[acc])]
        ELSE m

(* Shift(): t.heads[0] of an empty heap is an index out of range.          *)
Shift ==
    /\ ~fault
    /\ IF Len(heads) = 0
       THEN /\ fault' = TRUE
            /\ UNCHANGED <<txs, heads, emitted, popped>>
       ELSE /\ heads' = ShiftHeads(heads, txs)
            /\ txs' = ShiftTxs(heads, txs)
            /\ emitted' = Append(emitted, heads[1])
            /\ UNCHANGED <<fault, popped>>
    /\ peeked' = <<>>
    /\ UNCHANGED input
    /\ UNCHANGED <<feeVars, paysVars, decVars, txVars, cacheVars, sigVars>>

\* Pop cutting the last element off the heap, as TxByPrice.Pop does.
PopHeadsLast(h) == SubSeq(h, 1, Len(h) - 1)

\* Pop leaving the heap as it is.
PopHeadsKeep(h) == h

(* The heap after Pop() on a non-empty heap.                               *)
PopHeads(h) == heapPop(h)

(* Pop(): heap.Pop of an empty heap swaps index 0 with -1 and panics.      *)
Pop ==
    /\ ~fault
    /\ IF Len(heads) = 0
       THEN /\ fault' = TRUE
            /\ UNCHANGED <<heads, emitted, popped>>
       ELSE /\ heads' = PopHeads(heads)
            /\ emitted' = Append(emitted, heads[1])
            /\ popped' = popped \cup {Sender(heads[1])}
            /\ UNCHANGED fault
    /\ peeked' = <<>>
    /\ UNCHANGED <<txs, input>>
    /\ UNCHANGED <<feeVars, paysVars, decVars, txVars, cacheVars, sigVars>>

SelNext == Peek \/ Shift \/ Pop

\* The selector built from a map keyed by the true senders.
SelInit == SelInitFrom(KeyedInputs)
SpecSelector == SelInit /\ [][SelNext]_vars

\* The selector built from any map.
SelAnyInit == SelInitFrom(AnyInputs)
SpecSelectorAny == SelAnyInit /\ [][SelNext]_vars

(* A selection pass: the caller peeks, and while Peek returns a            *)
(* transaction it answers with one Shift or one Pop; it stops at nil. The  *)
(* caller keeps going until then, hence the weak fairness of its step.     *)
LoopPeek == peeked = <<>> /\ Peek
LoopShift == Len(peeked) = 2 /\ Shift
LoopPop == Len(peeked) = 2 /\ Pop
LoopNext == LoopPeek \/ LoopShift \/ LoopPop

\* A pass over a selector built from any finite map, well keyed or not.
LoopInit == SelInitFrom(KeyedInputs \cup AnyInputs)
SpecLoop == LoopInit /\ [][LoopNext]_vars /\ WF_vars(LoopNext)

-----------------------------------------------------------------------------
(* Claims about the selector.                                              *)

\* The transactions the caller has consumed so far.
EmittedSet == { emitted[i] : i \in 1..Len(emitted) }

\* C1: in every state reachable from the constructor by Peek, Shift and Pop,
\* for every input map (keyed by the senders or not), the heads heap holds at
\* most one transaction per recovered sender, and that transaction has the
\* lowest nonce among the sender's transactions not yet emitted.
C1_OneLowestHeadPerSender ==
    /\ \A i, j \in 1..Len(heads) :
          i # j => Sender(heads[i]) # Sender(heads[j])
    /\ \A i \in 1..Len(heads) :
          \A t \in InputTxs(input) \ EmittedSet :
             Sender(t) = Sender(heads[i]) => heads[i].nonce <= t.nonce

\* C2: Peek returns nil exactly when the heads heap is empty, and otherwise
\* returns a head whose gas price is at least the gas price of every head.
C2_PeekIsPriceMaximal ==
    peeked # <<>> =>
        /\ (peeked = <<"nil">>) <=> (Len(heads) = 0)
        /\ peeked # <<"nil">> =>
              /\ peeked[1] = "tx"
              /\ \E i \in 1..Len(heads) : heads[i] = peeked[2]
              /\ \A i \in 1..Len(heads) : peeked[2].price >= heads[i].price

\* Peek returned a head after a Shift or Pop while a cheaper head of another
\* account waits in the heap.
C2_Witness ==
    /\ Len(emitted) > 0
    /\ Len(peeked) = 2
    /\ \E i \in 1..Len(heads) :
          /\ heads[i].price < peeked[2].price
          /\ Sender(heads[i]) # Sender(peeked[2])

\* C3: the transactions of one account are emitted in the order of the
\* account's input list, so in non-decreasing nonce order: a later
\* transaction of an account is never emitted before an earlier one.
C3_PerAccountNonceOrder ==
    \A i, j \in 1..Len(emitted) :
        (i < j /\ Sender(emitted[i]) = Sender(emitted[j])) =>
            /\ emitted[i].key = emitted[j].key
            /\ emitted[i].idx < emitted[j].idx
            /\ emitted[i].nonce <= emitted[j].nonce

\* Two transactions of one account were emitted with a transaction of
\* another account between them.
C3_Witness ==
    \E i, j, k \in 1..Len(emitted) :
        /\ i < k /\ k < j
        /\ Sender(emitted[i]) = Sender(emitted[j])
        /\ Sender(emitted[k]) # Sender(emitted[i])

\* C4: once Pop has removed an account's head, no transaction of that
\* account is the best head or is returned by a later Peek.
C4_NoEmissionAfterPop ==
    /\ Len(heads) > 0 => Sender(heads[1]) \notin popped
    /\ Len(peeked) = 2 => Sender(peeked[2]) \notin popped

\* An account was popped while it still had transactions left, a Shift of
\* another account followed, and Peek then returned a transaction.
C4_Witness ==
    /\ \E a \in popped : a \in DOMAIN txs /\ Len(txs[a]) > 0
    /\ Len(emitted) > 0
    /\ Sender(emitted[Len(emitted)]) \notin popped
    /\ Len(peeked) = 2

\* The heap order of TxByPrice: no head is dearer than its parent.
IsPriceHeap(h) == \A i \in 2..Len(h) : h[i \div 2].price >= h[i].price

\* The heads of a heap that do not belong to account acc.
HeadsOfOthers(h, acc) ==
    { h[i] : i \in { j \in 1..Len(h) : Sender(h[j]) # acc } }

\* C20: Shift on a non-empty selector. If the account of the best head has
\* transactions left, the first of its list becomes one of the heads, the
\* list loses exactly that one, the number of heads stays and the heap
\* order holds again; if it has none left, its head is removed and the
\* number of heads drops by one. The heads and the lists of all other
\* accounts are as before.
C20_ShiftFrame ==
    [][(Shift /\ Len(heads) > 0) =>
         LET acc  == Sender(heads[1])
             more == acc \in DOMAIN txs /\ Len(txs[acc]) > 0
         IN  /\ IF more
                THEN /\ Len(heads') = Len(heads)
                     /\ \E i \in 1..Len(heads') : heads'[i] = txs[acc][1]
                     /\ txs'[acc] = Tail(txs[acc])
                     /\ Len(txs'[acc]) = Len(txs[acc]) - 1
                ELSE /\ Len(heads') = Len(heads) - 1
                     /\ txs' = txs
             /\ \A i \in 1..Len(heads') : heads'[i] # heads[1]
             /\ HeadsOfOthers(heads', acc) = HeadsOfOthers(heads, acc)
             /\ DOMAIN txs' = DOMAIN txs
             /\ \A a \in DOMAIN txs \ {acc} : txs'[a] = txs[a]
             /\ IsPriceHeap(heads')]_vars

\* A Shift put an account's next transaction in the head slot and heap.Fix
\* moved it below the head of another account; no Pop has happened.
C20_Witness ==
    /\ popped = {}
    /\ Len(emitted) > 0
    /\ \E i \in 2..Len(heads) :
          /\ heads[i].key = emitted[Len(emitted)].key
          /\ heads[i].idx = emitted[Len(emitted)].idx + 1
          /\ heads[1].price > heads[i].price

\* The number of heads plus the number of transactions left in the lists.
SelRemaining ==
    Len(heads)
    + Cardinality({ p \in (DOMAIN txs) \X (1..MaxTxs) :
                      p[2] <= Len(txs[p[1]]) })

\* C21: a selection pass terminates. From any finite input map, the caller
\* that peeks and answers every returned transaction with a Shift or a Pop
\* reaches the state where Peek returns nil and the heap is empty; it makes
\* at most as many Shift/Pop calls as the input has transactions; and no
\* step increases the number of heads plus remaining transactions, which
\* every Shift and every Pop lowers.
C21_PassTerminates ==
    /\ <>(peeked = <<"nil">> /\ Len(heads) = 0)
    /\ [](Len(emitted) <= Cardinality(InputTxs(input)))
    /\ [][/\ SelRemaining' <= SelRemaining
          /\ emitted' # emitted => SelRemaining' < SelRemaining]_vars

\* The pass ended after both a Shift and a Pop: Peek returned nil with as
\* many calls made as the input has transactions, or with fewer because a
\* popped account's remaining transactions were abandoned.
C21_Witness ==
    /\ peeked = <<"nil">>
    /\ Len(heads) = 0
    /\ popped # {}
    /\ \E i \in 1..Len(emitted) : Sender(emitted[i]) \notin popped
    /\ Len(emitted) < Cardinality(InputTxs(input))

\* The transactions of account acc the caller has consumed so far.
EmittedOf(acc) == { t \in EmittedSet : Sender(t) = acc }

\* C24: for an input map keyed by the true senders, with nonce-ordered
\* lists, the pass that ends with an empty heap has emitted every
\* transaction of every account that was never popped; of a popped account
\* it has emitted the transactions up to and including the popped one and
\* none after it; no transaction is emitted twice and none that is absent
\* from the input.
C24_EmitsEachOnce ==
    /\ [](/\ \A i, j \in 1..Len(emitted) :
                i # j => emitted[i] # emitted[j]
          /\ EmittedSet \subseteq InputTxs(input)
          /\ \A t \in EmittedSet :
                \A u \in InputTxs(input) :
                   (u.key = t.key /\ u.idx < t.idx) => u \in EmittedSet
          /\ \A acc \in popped : EmittedOf(acc) # {}
          /\ Len(heads) = 0 =>
                \A t \in InputTxs(input) :
                   Sender(t) \notin popped => t \in EmittedSet)
    /\ [][\A acc \in popped : EmittedOf(acc)' = EmittedOf(acc)]_vars

\* The pass has ended: an account with two transactions or more was emitted
\* in full, and another was popped with transactions left behind.
C24_Witness ==
    /\ Len(heads) = 0
    /\ ~fault
    /\ \E acc \in DOMAIN input \ popped : Cardinality(EmittedOf(acc)) >= 2
    /\ \E acc \in popped : Len(txs[acc]) > 0

\* C25: a Shift or a Pop that directly follows a Peek that returned a
\* transaction does not fault, and Peek itself never faults; a Shift or a
\* Pop faults exactly when the heap is empty, nothing in them checking for
\* emptiness.
C25_PeekGuardsShiftAndPop ==
    [][/\ (Shift \/ Pop) =>
             /\ Len(peeked) = 2 => ~fault'
             /\ fault' <=> Len(heads) = 0
       /\ Peek => ~fault']_vars

\* After a pass that used both Shift and Pop emptied the heap, one more
\* Shift or Pop, made without a Peek, faulted.
C25_Witness ==
    /\ fault
    /\ Len(heads) = 0
    /\ popped # {}
    /\ \E i \in 1..Len(emitted) : Sender(emitted[i]) \notin popped

-----------------------------------------------------------------------------
(* rollup/fees: the gas-limit encoding. The package's functions are called *)
(* by src/unnamed/part_000 and by Transaction.L2Gas; their bodies follow   *)
(* section 4.1 of the specification.                                       *)

\* The longest payload of the model.
MaxDataLen == 2

\* params.TxDataZeroGas and params.TxDataNonZeroGasEIP2028.
TxDataZeroGas == 4
TxDataNonZeroGasEIP2028 == 16

\* fees.BigTenThousand.
BigTenThousand == 10000

\* The payload bytes of the model: the zero byte and two non-zero bytes.
Bytes == {0, 1, 255}

Payloads == UNION { [1..n -> Bytes] : n \in 0..MaxDataLen }

\* The arguments EncodeTxGasLimit is applied to. The L1 gas prices put the
\* L1 fee below, at and above 10000 units of L2 gas.
FeeInputs ==
    [ data       : Payloads,
      l1GasPrice : {0, 1, 625, 909, 2500},
      l2GasLimit : {0, 1, 9999, 10000, 10001, 23255},
      l2GasPrice : {0, 1, 2},
      overhead   : {0, 3} ]

\* The L1 gas limit charging every byte as a non-zero byte.
calculateL1GasLimitFlat(data, overhead) ==
    overhead + TxDataNonZeroGasEIP2028 * Len(data)

(* calculateL1GasLimit(data, overhead): the intrinsic cost of the data.    *)
RECURSIVE calculateL1GasLimit(_, _)
calculateL1GasLimit(data, overhead) ==
    IF data = <<>> THEN overhead
    ELSE (IF Head(data) = 0 THEN TxDataZeroGas ELSE TxDataNonZeroGasEIP2028)
         + calculateL1GasLimit(Tail(data), overhead)

\* Ceilmod adding the distance to the next multiple to a multiple too.
CeilmodAlwaysUp(a, b) == a + b - (a % b)

(* Ceilmod(a, b): a rounded up to a multiple of b.                         *)
Ceilmod(a, b) ==
    IF a % b = 0 THEN a ELSE a + b - (a % b)

(* The L1 fee in units of L2 gas that EncodeTxGasLimit adds.               *)
ExtraL2Gas(data, l1GasPrice, l2GasPrice, overhead) ==
    IF l2GasPrice = 0 THEN 0
    ELSE (l1GasPrice * calculateL1GasLimit(data, overhead)) \div l2GasPrice

(* EncodeTxGasLimit(data, l1GasPrice, l2GasLimit, l2GasPrice), with the    *)
(* package's overhead as a parameter.                                      *)
EncodeTxGasLimit(data, l1GasPrice, l2GasLimit, l2GasPrice, overhead) ==
    Ceilmod(l2GasLimit, BigTenThousand)
        + ExtraL2Gas(data, l1GasPrice, l2GasPrice, overhead)

(* DecodeL2GasLimit(gasLimit), and DecodeL2GasLimitU64 on a uint64 (the    *)
(* model's values stay far below 2^64).                                    *)
DecodeL2GasLimit(gasLimit) == (gasLimit \div BigTenThousand) * BigTenThousand

DecodeL2GasLimitU64(gasLimit) == DecodeL2GasLimit(gasLimit)

(* Transaction.Gas() and Transaction.L2Gas().                              *)
Gas(tx) == tx.GasLimit

\* L2Gas returning the gas limit as it is on the wire.
L2GasOfRawLimit(tx) == Gas(tx)

L2Gas(tx) == DecodeL2GasLimitU64(tx.GasLimit)

FeeInit ==
    /\ feeIn \in FeeInputs
    /\ feeEnc = <<>>
    /\ feeDec = <<>>
    /\ feeL1 = <<>>
    /\ ceilIn = <<>> /\ ceilOut = <<>>
    /\ SelIdle /\ PaysIdle /\ DecIdle /\ TxIdle /\ CacheIdle /\ SigIdle

\* The caller encodes the gas limit of a transaction it builds.
FeeEncode ==
    /\ feeEnc = <<>>
    /\ feeEnc' = <<EncodeTxGasLimit(feeIn.data, feeIn.l1GasPrice,
                                    feeIn.l2GasLimit, feeIn.l2GasPrice,
                                    feeIn.overhead)>>
    /\ UNCHANGED <<feeIn, feeDec, feeL1, ceilIn, ceilOut>>
    /\ UNCHANGED <<selVars, paysVars, decVars, txVars, cacheVars, sigVars>>

\* L2Gas() of the transaction whose gas limit is the encoded value.
FeeL2Gas ==
    /\ feeEnc # <<>>
    /\ feeDec = <<>>
    /\ feeDec' = <<L2Gas([GasLimit |-> feeEnc[1]])>>
    /\ UNCHANGED <<feeIn, feeEnc, feeL1, ceilIn, ceilOut>>
    /\ UNCHANGED <<selVars, paysVars, decVars, txVars, cacheVars, sigVars>>

\* The caller asks for the L1 gas limit of the data, as TestL1GasLimit does.
FeeL1GasLimit ==
    /\ feeL1 = <<>>
    /\ feeL1' = <<calculateL1GasLimit(feeIn.data, feeIn.overhead)>>
    /\ UNCHANGED <<feeIn, feeEnc, feeDec, ceilIn, ceilOut>>
    /\ UNCHANGED <<selVars, paysVars, decVars, txVars, cacheVars, sigVars>>

FeeNext == FeeEncode \/ FeeL2Gas \/ FeeL1GasLimit

SpecFee == FeeInit /\ [][FeeNext]_vars

\* The zero bytes and the non-zero bytes of a payload, by position.
ZeroBytes(data) == { i \in 1..Len(data) : data[i] = 0 }
NonZeroBytes(data) == { i \in 1..Len(data) : data[i] # 0 }

\* C11: for every payload, the empty one included, and every overhead,
\* calculateL1GasLimit returns a value, and the value is the overhead plus 4
\* for each zero byte plus 16 for each non-zero byte.
C11_IntrinsicDataCost ==
    feeL1 # <<>> =>
        /\ Len(feeL1) = 1
        /\ feeL1[1] = feeIn.overhead
                         + 4 * Cardinality(ZeroBytes(feeIn.data))
                         + 16 * Cardinality(NonZeroBytes(feeIn.data))

\* The L1 gas limit was computed for a payload with a zero byte and a
\* non-zero byte under a positive overhead.
C11_Witness ==
    /\ feeL1 # <<>>
    /\ feeIn.overhead > 0
    /\ ZeroBytes(feeIn.data) # {}
    /\ NonZeroBytes(feeIn.data) # {}

\* The precondition of the round trip: the L1 fee is worth less than 10000
\* units of L2 gas, or the L2 gas price is zero.
FeeExtraFits ==
    \/ feeIn.l2GasPrice = 0
    \/ (feeIn.l1GasPrice * calculateL1GasLimit(feeIn.data, feeIn.overhead))
           \div feeIn.l2GasPrice < 10000

\* C5: when the L2 gas price is 0 or the L1 fee divided by the L2 gas price
\* is below 10000, decoding the encoded gas limit gives the L2 gas limit
\* rounded up to a multiple of 10000, whatever the payload, the L1 gas price
\* and the overhead are.
C5_RoundTrip ==
    (feeDec # <<>> /\ FeeExtraFits) =>
        feeDec[1] = Ceilmod(feeIn.l2GasLimit, 10000)

\* A decoded gas limit whose encoding carried a non-zero L1 part just below
\* 10000 on top of a gas limit that had to be rounded up.
C5_Witness ==
    /\ feeDec # <<>>
    /\ FeeExtraFits
    /\ feeEnc[1] - Ceilmod(feeIn.l2GasLimit, 10000) = 9999
    /\ feeIn.l2GasLimit % 10000 # 0
    /\ feeIn.data # <<>>

-----------------------------------------------------------------------------
(* rollup/fees: Ceilmod on its own, for any modulus.                       *)

\* The largest value and the largest modulus of the small arguments.
MaxCeilValue == 12
MaxCeilModulus == 5

\* The arguments of Ceilmod: every small value against every small modulus,
\* and the gas limits of the fee model against fees.BigTenThousand.
CeilInputs ==
    [a : 0..MaxCeilValue, b : 1..MaxCeilModulus]
        \cup [a : {0, 1, 9999, 10000, 10001, 23255}, b : {BigTenThousand}]

CeilInit ==
    /\ ceilIn \in CeilInputs
    /\ ceilOut = <<>>
    /\ feeIn = <<>> /\ feeEnc = <<>> /\ feeDec = <<>> /\ feeL1 = <<>>
    /\ SelIdle /\ PaysIdle /\ DecIdle /\ TxIdle /\ CacheIdle /\ SigIdle

\* The caller rounds the value, then rounds the result once more.
CeilmodCall ==
    /\ Len(ceilOut) < 2
    /\ ceilOut' = Append(ceilOut,
                         Ceilmod(IF ceilOut = <<>> THEN ceilIn.a
                                 ELSE ceilOut[Len(ceilOut)], ceilIn.b))
    /\ UNCHANGED <<feeIn, feeEnc, feeDec, feeL1, ceilIn>>
    /\ UNCHANGED <<selVars, paysVars, decVars, txVars, cacheVars, sigVars>>

CeilNext == CeilmodCall

SpecCeil == CeilInit /\ [][CeilNext]_vars

\* C12: for a value >= 0 and a modulus > 0, Ceilmod returns the smallest
\* multiple of the modulus that is not below the value: the value itself
\* when it is a multiple, otherwise a multiple strictly between the value
\* and the value plus the modulus; rounding the result again changes nothing.
C12_CeilIsSmallestMultiple ==
    ceilOut # <<>> =>
        LET a == ceilIn.a
            b == ceilIn.b
            r == ceilOut[1]
        IN  /\ r >= a
            /\ r % b = 0
            /\ \A m \in a..(r - 1) : m % b # 0
            /\ (a % b = 0) => r = a
            /\ (a % b # 0) => (a < r /\ r < a + b)
            /\ Len(ceilOut) = 2 => ceilOut[2] = r

\* Ceilmod has rounded a value that is no multiple up and has then returned
\* the multiple unchanged.
C12_Witness ==
    /\ Len(ceilOut) = 2
    /\ ceilIn.a % ceilIn.b # 0
    /\ ceilIn.b > 1
    /\ ceilOut[1] > ceilIn.a

-----------------------------------------------------------------------------
(* rollup/fees: PaysEnough(opts). The function is called by TestPaysEnough *)
(* of src/unnamed/part_000; its body follows section 4.2 of the            *)
(* specification. A fee is <<>> (nil) or <<n>>; a threshold is <<>> (nil)  *)
(* or <<num, den>>, the multiplier num/den.                                *)

\* The largest fee of the model.
MaxFee == 4

Fees == {<<>>} \cup { <<n>> : n \in 0..MaxFee }

\* nil, 0.5, 0.8, 1.5 and 3: multipliers below and above 1 in each direction.
Thresholds == {<<>>, <<1, 2>>, <<4, 5>>, <<3, 2>>, <<3, 1>>}

PaysEnoughInputs ==
    [ UserFee : Fees, ExpectedFee : Fees,
      ThresholdUp : Thresholds, ThresholdDown : Thresholds ]

\* fee > expected * threshold and fee < expected * threshold, on rationals.
AboveBound(fee, expected, threshold) ==
    fee * threshold[2] > expected * threshold[1]

BelowBound(fee, expected, threshold) ==
    fee * threshold[2] < expected * threshold[1]

\* The checks of two present fees with the check for a fee that is too low
\* made before the check for a fee that is too high.
CheckFeesLowFirst(opts) ==
    LET user == opts.UserFee[1]
        expected == opts.ExpectedFee[1]
    IN  IF user = expected THEN "nil"
        ELSE IF opts.ThresholdDown # <<>>
                /\ BelowBound(user, expected, opts.ThresholdDown)
        THEN "ErrFeeTooLow"
        ELSE IF opts.ThresholdDown = <<>> /\ user < expected
        THEN "ErrFeeTooLow"
        ELSE IF opts.ThresholdUp # <<>>
                /\ AboveBound(user, expected, opts.ThresholdUp)
        THEN "ErrFeeTooHigh"
        ELSE IF opts.ThresholdUp = <<>> /\ user > expected
        THEN "ErrFeeTooHigh"
        ELSE "nil"

\* The checks of two present fees without the shortcut for equal fees.
CheckFeesNoEqual(opts) ==
    LET user == opts.UserFee[1]
        expected == opts.ExpectedFee[1]
    IN  IF opts.ThresholdUp # <<>>
           /\ AboveBound(user, expected, opts.ThresholdUp)
        THEN "ErrFeeTooHigh"
        ELSE IF opts.ThresholdUp = <<>> /\ user > expected
        THEN "ErrFeeTooHigh"
        ELSE IF opts.ThresholdDown # <<>>
                /\ BelowBound(user, expected, opts.ThresholdDown)
        THEN "ErrFeeTooLow"
        ELSE IF opts.ThresholdDown = <<>> /\ user < expected
        THEN "ErrFeeTooLow"
        ELSE "nil"

\* The checks of two present fees with a fee outside both given bounds
\* reported as too low.
CheckFeesBothLow(opts) ==
    LET user == opts.UserFee[1]
        expected == opts.ExpectedFee[1]
    IN  IF user = expected THEN "nil"
        ELSE IF opts.ThresholdUp # <<>> /\ opts.ThresholdDown # <<>>
                /\ AboveBound(user, expected, opts.ThresholdUp)
                /\ BelowBound(user, expected, opts.ThresholdDown)
        THEN "ErrFeeTooLow"
        ELSE IF opts.ThresholdUp # <<>>
                /\ AboveBound(user, expected, opts.ThresholdUp)
        THEN "ErrFeeTooHigh"
        ELSE IF opts.ThresholdUp = <<>> /\ user > expected
        THEN "ErrFeeTooHigh"
        ELSE IF opts.ThresholdDown # <<>>
                /\ BelowBound(user, expected, opts.ThresholdDown)
        THEN "ErrFeeTooLow"
        ELSE IF opts.ThresholdDown = <<>> /\ user < expected
        THEN "ErrFeeTooLow"
        ELSE "nil"

(* PaysEnough on two present fees: equal fees pay; otherwise the fee is    *)
(* checked against the upper bound, then against the lower bound.          *)
CheckFees(opts) ==
    LET user == opts.UserFee[1]
        expected == opts.ExpectedFee[1]
    IN  IF user = expected THEN "nil"
        ELSE IF opts.ThresholdUp # <<>>
                /\ AboveBound(user, expected, opts.ThresholdUp)
        THEN "ErrFeeTooHigh"
        ELSE IF opts.ThresholdUp = <<>> /\ user > expected
        THEN "ErrFeeTooHigh"
        ELSE IF opts.ThresholdDown # <<>>
                /\ BelowBound(user, expected, opts.ThresholdDown)
        THEN "ErrFeeTooLow"
        ELSE IF opts.ThresholdDown = <<>> /\ user < expected
        THEN "ErrFeeTooLow"
        ELSE "nil"

\* PaysEnough taking a fee of zero for a missing fee.
PaysEnoughZeroMissing(opts) ==
    IF opts.UserFee \in {<<>>, <<0>>} THEN "errMissingInput"
    ELSE IF opts.ExpectedFee \in {<<>>, <<0>>} THEN "errMissingInput"
    ELSE CheckFees(opts)

(* PaysEnough(opts): "nil" or the name of the error.                       *)
PaysEnough(opts) ==
    IF opts.UserFee = <<>> THEN "errMissingInput"
    ELSE IF opts.ExpectedFee = <<>> THEN "errMissingInput"
    ELSE CheckFees(opts)

PaysInit ==
    /\ paysIn \in PaysEnoughInputs
    /\ paysOut = "pending"
    /\ SelIdle /\ FeeIdle /\ DecIdle /\ TxIdle /\ CacheIdle /\ SigIdle

PaysEnoughCall ==
    /\ paysOut = "pending"
    /\ paysOut' = PaysEnough(paysIn)
    /\ UNCHANGED paysIn
    /\ UNCHANGED <<selVars, feeVars, decVars, txVars, cacheVars, sigVars>>

PaysNext == PaysEnoughCall

SpecPays == PaysInit /\ [][PaysNext]_vars

\* Both fees are present and differ.
PaysUnequal ==
    /\ paysIn.UserFee # <<>>
    /\ paysIn.ExpectedFee # <<>>
    /\ paysIn.UserFee # paysIn.ExpectedFee

\* userFee > upper, upper being expectedFee * thresholdUp, or expectedFee
\* when thresholdUp is absent.
PaysAboveUpper ==
    IF paysIn.ThresholdUp = <<>>
    THEN paysIn.UserFee[1] > paysIn.ExpectedFee[1]
    ELSE paysIn.UserFee[1] * paysIn.ThresholdUp[2]
             > paysIn.ExpectedFee[1] * paysIn.ThresholdUp[1]

\* userFee < lower, lower being expectedFee * thresholdDown, or expectedFee
\* when thresholdDown is absent.
PaysBelowLower ==
    IF paysIn.ThresholdDown = <<>>
    THEN paysIn.UserFee[1] < paysIn.ExpectedFee[1]
    ELSE paysIn.UserFee[1] * paysIn.ThresholdDown[2]
             < paysIn.ExpectedFee[1] * paysIn.ThresholdDown[1]

\* C8: for present, unequal fees and every combination of present and absent
\* thresholds, PaysEnough fails with FeeTooHigh if userFee is above the upper
\* bound, otherwise with FeeTooLow if userFee is below the lower bound, and
\* otherwise succeeds.
C8_MatchesReference ==
    (paysOut # "pending" /\ PaysUnequal) =>
        /\ PaysAboveUpper => paysOut = "ErrFeeTooHigh"
        /\ (~PaysAboveUpper /\ PaysBelowLower) => paysOut = "ErrFeeTooLow"
        /\ (~PaysAboveUpper /\ ~PaysBelowLower) => paysOut = "nil"

\* PaysEnough has answered for a fee that is above the upper bound and below
\* the lower bound at once.
C8_Witness ==
    /\ paysOut # "pending"
    /\ PaysUnequal
    /\ paysIn.ThresholdUp # <<>>
    /\ paysIn.ThresholdDown # <<>>
    /\ PaysAboveUpper
    /\ PaysBelowLower

\* C9: PaysEnough returns MissingInput whenever userFee or expectedFee is
\* absent, whatever the thresholds and the other fee are, and never for two
\* present fees, in particular not for a fee of zero.
C9_MissingInput ==
    paysOut # "pending" =>
        ((paysOut = "errMissingInput")
            <=> (paysIn.UserFee = <<>> \/ paysIn.ExpectedFee = <<>>))

\* PaysEnough has answered for a user fee of zero against a present expected
\* fee, with both thresholds set.
C9_Witness ==
    /\ paysOut \notin {"pending", "errMissingInput"}
    /\ paysIn.UserFee = <<0>>
    /\ paysIn.ExpectedFee # <<>>
    /\ paysIn.ThresholdUp # <<>>
    /\ paysIn.ThresholdDown # <<>>

\* C10: PaysEnough succeeds whenever both fees are present and equal, for
\* every thresholdUp and thresholdDown, absent ones included.
C10_EqualFeesPay ==
    (/\ paysOut # "pending"
     /\ paysIn.UserFee # <<>>
     /\ paysIn.UserFee = paysIn.ExpectedFee) => paysOut = "nil"

\* PaysEnough has answered for equal fees that lie outside both bounds:
\* thresholdUp below 1 and thresholdDown above 1.
C10_Witness ==
    /\ paysOut # "pending"
    /\ paysIn.UserFee # <<>>
    /\ paysIn.UserFee = paysIn.ExpectedFee
    /\ paysIn.ThresholdUp = <<1, 2>>
    /\ paysIn.ThresholdDown = <<3, 2>>
    /\ paysIn.UserFee[1] > 0

\* C22: PaysEnough checks the too-high condition before the too-low
\* condition: for present, unequal fees and two present thresholds with
\* userFee > expectedFee * thresholdUp and userFee < expectedFee *
\* thresholdDown at once, the result is FeeTooHigh, never FeeTooLow; and
\* every call returns one of success, MissingInput, FeeTooHigh, FeeTooLow.
C22_TooHighBeforeTooLow ==
    paysOut # "pending" =>
        /\ paysOut \in {"nil", "errMissingInput",
                         "ErrFeeTooHigh", "ErrFeeTooLow"}
        /\ (/\ PaysUnequal
            /\ paysIn.ThresholdUp # <<>>
            /\ paysIn.ThresholdDown # <<>>
            /\ AboveBound(paysIn.UserFee[1], paysIn.ExpectedFee[1],
                          paysIn.ThresholdUp)
            /\ BelowBound(paysIn.UserFee[1], paysIn.ExpectedFee[1],
                          paysIn.ThresholdDown))
               => paysOut = "ErrFeeTooHigh"

\* PaysEnough answered FeeTooHigh for a fee of 3 against an expected fee of
\* 4 with thresholdUp 0.5 and thresholdDown 1.5: 3 > 2 and 3 < 6.
C22_Witness ==
    /\ paysOut = "ErrFeeTooHigh"
    /\ paysIn = [UserFee |-> <<3>>, ExpectedFee |-> <<4>>,
                 ThresholdUp |-> <<1, 2>>, ThresholdDown |-> <<3, 2>>]

-----------------------------------------------------------------------------
(* Transaction: the core fields, the metadata and the derived Message.     *)
(* A pointer is <<>> (nil) or <<v>>.                                       *)

\* The largest account nonce of the model.
MaxNonce == 1

\* common.Address{}: the zero address.
ZeroAddress == "0x0"

\* The addresses ETH1_L1_CROSS_DOMAIN_MESSENGER_ADDRESS can give:
\* HexToAddress of an unset variable is the zero address.
MessengerAddresses == {ZeroAddress, "messenger"}

\* The core fields (txdata) of the model's transactions. V = 0 with R = S = 0
\* is the unsigned transaction newTransaction builds; 27 and 28 are the V of
\* a signed one.
TxDatas ==
    { d \in [ AccountNonce : 0..MaxNonce, Price : {1}, GasLimit : {21000},
              Recipient : {<<>>, <<"a1">>}, Amount : {0},
              Payload : {<<>>, <<0, 1>>}, V : {0, 27, 28},
              R : {0, 1}, S : {0, 1} ] :
        /\ d.R = d.S
        /\ (d.V = 0) <=> (d.R = 0) }

\* The values of the TransactionMeta a caller hands to SetTransactionMeta.
Metas ==
    [ L1BlockNumber : {<<>>, <<7>>}, L1Timestamp : {0, 5},
      L1MessageSender : {<<>>, <<"a2">>},
      QueueOrigin : {"Sequencer", "L1ToL2"},
      Index : {<<>>, <<3>>}, QueueIndex : {<<>>, <<2>>},
      RawTransaction : {<<>>} ]

(* NewTransactionMeta(nil, 0, nil, QueueOriginSequencer, nil, nil, nil),   *)
(* the metadata newTransaction gives a record.                             *)
NewTransactionMeta ==
    [ L1BlockNumber |-> <<>>, L1Timestamp |-> 0, L1MessageSender |-> <<>>,
      QueueOrigin |-> "Sequencer", Index |-> <<>>, QueueIndex |-> <<>>,
      RawTransaction |-> <<>> ]

(* The RLP encoding of tx.data: its nine encoded fields (Hash is rlp:"-"). *)
rlpFields(d) ==
    << d.AccountNonce, d.Price, d.GasLimit, d.Recipient, d.Amount,
       d.Payload, d.V, d.R, d.S >>

(* rlpHash(tx): the Keccak-256 of the encoding, as an ideal hash.          *)
rlpHash(d) == <<"keccak256", rlpFields(d)>>

(* The length in bytes of the RLP encoding of tx.data, for integers below  *)
(* 2^24 and fewer than 56 payload bytes.                                   *)
rlpSize(d) ==
    LET int(n) == IF n < 128 THEN 1 ELSE IF n < 256 THEN 2
                  ELSE IF n < 65536 THEN 3 ELSE 4
        bytes(b) == IF Len(b) = 1 /\ b[1] < 128 THEN 1 ELSE 1 + Len(b)
        to == IF d.Recipient = <<>> THEN 1 ELSE 21
        content == int(d.AccountNonce) + int(d.Price) + int(d.GasLimit) + to
                   + int(d.Amount) + bytes(d.Payload)
                   + int(d.V) + int(d.R) + int(d.S)
    IN  IF content < 56 THEN 1 + content ELSE 2 + content

(* common.StorageSize(c): the type of the value the size cell holds.       *)
StorageSize(c) == <<"StorageSize", c>>

TxInit ==
    /\ txData \in TxDatas
    /\ txMeta = NewTransactionMeta
    /\ txHash = <<>>
    /\ txSize = <<>>
    /\ asMsg = <<>>
    /\ SelIdle /\ FeeIdle /\ PaysIdle /\ DecIdle /\ CacheIdle /\ SigIdle

(* SetTransactionMeta(meta): a nil meta changes nothing.                   *)
SetTransactionMeta(meta) ==
    /\ txMeta' = IF meta = <<>> THEN txMeta ELSE meta[1]
    /\ asMsg' = <<>>
    /\ UNCHANGED <<txData, txHash, txSize>>
    /\ UNCHANGED <<selVars, feeVars, paysVars, decVars, cacheVars, sigVars>>

(* SetIndex(index).                                                        *)
SetIndex(index) ==
    /\ txMeta' = [txMeta EXCEPT !.Index = <<index>>]
    /\ asMsg' = <<>>
    /\ UNCHANGED <<txData, txHash, txSize>>
    /\ UNCHANGED <<selVars, feeVars, paysVars, decVars, cacheVars, sigVars>>

(* SetL1Timestamp(ts).                                                     *)
SetL1Timestamp(ts) ==
    /\ txMeta' = [txMeta EXCEPT !.L1Timestamp = ts]
    /\ asMsg' = <<>>
    /\ UNCHANGED <<txData, txHash, txSize>>
    /\ UNCHANGED <<selVars, feeVars, paysVars, decVars, cacheVars, sigVars>>

(* SetL1BlockNumber(bn).                                                   *)
SetL1BlockNumber(bn) ==
    /\ txMeta' = [txMeta EXCEPT !.L1BlockNumber = <<bn>>]
    /\ asMsg' = <<>>
    /\ UNCHANGED <<txData, txHash, txSize>>
    /\ UNCHANGED <<selVars, feeVars, paysVars, decVars, cacheVars, sigVars>>

\* The queue origin AsMessage gives a transaction: the origin is taken
\* from the metadata the record already has.
AsMessageOriginKept(d, meta) == meta.QueueOrigin

(* The queue origin AsMessage gives a transaction with core fields d.      *)
AsMessageOrigin(d, meta) == IF d.V = 0 THEN "L1ToL2" ELSE "Sequencer"

\* AsMessage keeping an Index and a QueueIndex that are present in the
\* branch for V = 0 too.
AsMessageMetaIndexKept(d, meta, l1) ==
    IF d.V = 0
    THEN [ L1BlockNumber |-> <<0>>, L1Timestamp |-> 0,
           L1MessageSender |-> <<l1>>,
           QueueOrigin |-> "L1ToL2",
           Index |-> IF meta.Index = <<>> THEN <<0>> ELSE meta.Index,
           QueueIndex |-> IF meta.QueueIndex = <<>> THEN <<0>>
                          ELSE meta.QueueIndex,
           RawTransaction |-> d.Payload ]
    ELSE [ L1BlockNumber |-> <<0>>, L1Timestamp |-> meta.L1Timestamp,
           L1MessageSender |-> meta.L1MessageSender,
           QueueOrigin |-> "Sequencer",
           Index |-> IF meta.Index = <<>> THEN <<0>> ELSE meta.Index,
           QueueIndex |-> IF meta.QueueIndex = <<>> THEN <<0>>
                          ELSE meta.QueueIndex,
           RawTransaction |-> d.Payload ]

\* AsMessage with line 448 in force: the branch for a signed transaction
\* clears the L1MessageSender.
AsMessageMetaSenderCleared(d, meta, l1) ==
    IF d.V = 0
    THEN [ L1BlockNumber |-> <<0>>, L1Timestamp |-> 0,
           L1MessageSender |-> <<l1>>,
           QueueOrigin |-> "L1ToL2",
           Index |-> <<0>>, QueueIndex |-> <<0>>,
           RawTransaction |-> d.Payload ]
    ELSE [ L1BlockNumber |-> <<0>>, L1Timestamp |-> meta.L1Timestamp,
           L1MessageSender |-> <<>>,
           QueueOrigin |-> "Sequencer",
           Index |-> IF meta.Index = <<>> THEN <<0>> ELSE meta.Index,
           QueueIndex |-> IF meta.QueueIndex = <<>> THEN <<0>>
                          ELSE meta.QueueIndex,
           RawTransaction |-> d.Payload ]

(* The metadata AsMessage stores in the record: the branch for V = 0 (an   *)
(* L1 message, l1 being the messenger address of the environment) and the  *)
(* branch for any other V.                                                 *)
AsMessageMeta(d, meta, l1) ==
    IF d.V = 0
    THEN [ L1BlockNumber |-> <<0>>, L1Timestamp |-> 0,
           L1MessageSender |-> <<l1>>,
           QueueOrigin |-> AsMessageOrigin(d, meta),
           Index |-> <<0>>, QueueIndex |-> <<0>>,
           RawTransaction |-> d.Payload ]
    ELSE [ L1BlockNumber |-> <<0>>, L1Timestamp |-> meta.L1Timestamp,
           L1MessageSender |-> meta.L1MessageSender,
           QueueOrigin |-> AsMessageOrigin(d, meta),
           Index |-> IF meta.Index = <<>> THEN <<0>> ELSE meta.Index,
           QueueIndex |-> IF meta.QueueIndex = <<>> THEN <<0>>
                          ELSE meta.QueueIndex,
           RawTransaction |-> d.Payload ]

\* The Message's l1MessageSender left as the metadata has it.
MsgL1MessageSenderKept(meta) == meta.L1MessageSender

(* The l1MessageSender of the Message: the metadata's when it is not nil,  *)
(* a pointer to the zero address otherwise.                                *)
MsgL1MessageSender(meta) ==
    IF meta.L1MessageSender # <<>>
    THEN meta.L1MessageSender ELSE <<ZeroAddress>>

(* The Message AsMessage returns for core fields d, stored metadata meta   *)
(* and the address Sender gave.                                            *)
AsMessageMsg(d, meta, from) ==
    [ nonce |-> d.AccountNonce, gasLimit |-> d.GasLimit,
      gasPrice |-> d.Price, to |-> d.Recipient, amount |-> d.Amount,
      data |-> d.Payload, checkNonce |-> TRUE, from |-> from,
      l1MessageSender |-> MsgL1MessageSender(meta),
      l1BlockNumber |-> meta.L1BlockNumber,
      queueOrigin |-> meta.QueueOrigin,
      l1Timestamp |-> meta.L1Timestamp ]

\* What Sender(s, tx) can give: an address, or the zero address and an error.
SenderOutcomes ==
    { [addr |-> "a1", err |-> "nil"],
      [addr |-> ZeroAddress, err |-> "ErrInvalidSig"] }

\* AsMessage putting the metadata back when Sender fails.
AsMessageRollback(l1, sender) ==
    /\ txMeta' = IF sender.err = "nil"
                 THEN AsMessageMeta(txData, txMeta, l1) ELSE txMeta
    /\ asMsg' = << [ msg |-> AsMessageMsg(txData, txMeta', sender.addr),
                     err |-> sender.err,
                     metaBefore |-> txMeta ] >>
    /\ UNCHANGED <<txData, txHash, txSize>>
    /\ UNCHANGED <<selVars, feeVars, paysVars, decVars, cacheVars, sigVars>>

(* AsMessage(s): the metadata is rewritten in place, then the Message is   *)
(* built and the sender recovered; the error of Sender is returned with    *)
(* the Message.                                                            *)
AsMessage(l1, sender) ==
    /\ txMeta' = AsMessageMeta(txData, txMeta, l1)
    /\ asMsg' = << [ msg |-> AsMessageMsg(txData, txMeta', sender.addr),
                     err |-> sender.err,
                     metaBefore |-> txMeta ] >>
    /\ UNCHANGED <<txData, txHash, txSize>>
    /\ UNCHANGED <<selVars, feeVars, paysVars, decVars, cacheVars, sigVars>>

\* Hash() hashing the metadata along with the core fields.
HashResultOverMeta(cell, d) ==
    IF cell # <<>> THEN cell[1] ELSE <<"keccak256", rlpFields(d), txMeta>>

(* What Hash() returns on a record whose hash cell is cell and whose core  *)
(* fields are d: the stored hash, or rlpHash(tx).                          *)
HashResult(cell, d) == IF cell # <<>> THEN cell[1] ELSE rlpHash(d)

(* What Size() returns: the stored size, or the length of the encoding.    *)
SizeResult(cell, d) ==
    IF cell # <<>> THEN cell[1] ELSE StorageSize(rlpSize(d))

(* Hash(), called by one caller at a time.                                 *)
TxHashCall ==
    /\ txHash' = <<HashResult(txHash, txData)>>
    /\ asMsg' = <<>>
    /\ UNCHANGED <<txData, txMeta, txSize>>
    /\ UNCHANGED <<selVars, feeVars, paysVars, decVars, cacheVars, sigVars>>

(* Size(), called by one caller at a time.                                 *)
TxSizeCall ==
    /\ txSize' = <<SizeResult(txSize, txData)>>
    /\ asMsg' = <<>>
    /\ UNCHANGED <<txData, txMeta, txHash>>
    /\ UNCHANGED <<selVars, feeVars, paysVars, decVars, cacheVars, sigVars>>

(* SetNonce(nonce).                                                        *)
TxSetNonce(nonce) ==
    /\ txData' = [txData EXCEPT !.AccountNonce = nonce]
    /\ asMsg' = <<>>
    /\ UNCHANGED <<txMeta, txHash, txSize>>
    /\ UNCHANGED <<selVars, feeVars, paysVars, decVars, cacheVars, sigVars>>

\* The metadata setters, AsMessage, Hash() and Size().
TxMetaNext ==
    \/ \E meta \in {<<>>} \cup { <<m>> : m \in Metas } :
          SetTransactionMeta(meta)
    \/ \E index \in {0, 3} : SetIndex(index)
    \/ \E ts \in {0, 5} : SetL1Timestamp(ts)
    \/ \E bn \in {0, 7} : SetL1BlockNumber(bn)
    \/ \E l1 \in MessengerAddresses, sender \in SenderOutcomes :
          AsMessage(l1, sender)
    \/ TxHashCall
    \/ TxSizeCall

TxNext ==
    \/ TxMetaNext
    \/ \E nonce \in 0..MaxNonce : TxSetNonce(nonce)

SpecTx == TxInit /\ [][TxNext]_vars

\* A record that only has its metadata set and its views read.
SpecMeta == TxInit /\ [][TxMetaNext]_vars

\* C6: AsMessage on a transaction whose V is zero leaves the record's
\* metadata and the returned Message with QueueOrigin L1ToL2 and a present
\* L1MessageSender; on a transaction whose V is not zero it leaves both with
\* QueueOrigin Sequencer, whatever the QueueOrigin was before the call.
C6_OriginFollowsV ==
    asMsg # <<>> =>
        IF txData.V = 0
        THEN /\ txMeta.QueueOrigin = "L1ToL2"
             /\ txMeta.L1MessageSender # <<>>
             /\ asMsg[1].msg.queueOrigin = "L1ToL2"
             /\ asMsg[1].msg.l1MessageSender # <<>>
        ELSE /\ txMeta.QueueOrigin = "Sequencer"
             /\ asMsg[1].msg.queueOrigin = "Sequencer"

\* AsMessage has returned for a signed transaction whose metadata said
\* L1ToL2 before the call.
C6_Witness ==
    /\ asMsg # <<>>
    /\ txData.V # 0
    /\ asMsg[1].metaBefore.QueueOrigin = "L1ToL2"

\* C14: every Message AsMessage returns has an L1MessageSender that is not
\* nil: the one of the record's metadata when that is not nil, the zero
\* address when it is, for V = 0, for any other V, and when Sender fails.
C14_L1MessageSenderPresent ==
    asMsg # <<>> =>
        /\ asMsg[1].msg.l1MessageSender # <<>>
        /\ txMeta.L1MessageSender # <<>> =>
              asMsg[1].msg.l1MessageSender = txMeta.L1MessageSender
        /\ txMeta.L1MessageSender = <<>> =>
              asMsg[1].msg.l1MessageSender = <<ZeroAddress>>

\* AsMessage returned an error and a Message for a signed transaction whose
\* metadata has no L1MessageSender: the Message carries the zero address.
C14_Witness ==
    /\ asMsg # <<>>
    /\ txData.V # 0
    /\ asMsg[1].err # "nil"
    /\ txMeta.L1MessageSender = <<>>
    /\ asMsg[1].msg.l1MessageSender = <<ZeroAddress>>

\* C15: no public operation changes a core field after construction, so a
\* hash (or size) that is memoized is the hash (or size) of the record's
\* current core fields, also when Hash() is followed by a setter.
C15_CacheMatchesCoreFields ==
    /\ txHash # <<>> => txHash = <<rlpHash(txData)>>
    /\ txSize # <<>> => txSize = <<StorageSize(rlpSize(txData))>>

\* C16 as stated: for V = 0, AsMessage sets Index and QueueIndex to 0 only
\* when they were absent; a value present before the call is kept.
C16_IndexKeptIfPresent ==
    (asMsg # <<>> /\ txData.V = 0) =>
        LET before == asMsg[1].metaBefore
        IN  /\ txMeta.Index =
                  (IF before.Index = <<>> THEN <<0>> ELSE before.Index)
            /\ txMeta.QueueIndex =
                  (IF before.QueueIndex = <<>> THEN <<0>>
                   ELSE before.QueueIndex)

\* C16 as amended: for V = 0, AsMessage sets Index and QueueIndex to 0
\* whether they were absent or present before the call.
C16_IndexForcedToZero ==
    (asMsg # <<>> /\ txData.V = 0) =>
        /\ txMeta.Index = <<0>>
        /\ txMeta.QueueIndex = <<0>>

\* AsMessage returned for an unsigned transaction whose Index and QueueIndex
\* were both set to other values before the call.
C16_Witness ==
    /\ asMsg # <<>>
    /\ txData.V = 0
    /\ asMsg[1].metaBefore.Index = <<3>>
    /\ asMsg[1].metaBefore.QueueIndex = <<2>>

\* C17: for V # 0, AsMessage sets L1BlockNumber to 0, QueueOrigin to
\* Sequencer and RawTransaction to the payload; L1Timestamp, Index and
\* QueueIndex each keep their value, an absent Index or QueueIndex becoming
\* 0 on its own; the metadata's L1MessageSender is as before.
C17_SequencerBranchFrame ==
    (asMsg # <<>> /\ txData.V # 0) =>
        LET before == asMsg[1].metaBefore
        IN  /\ txMeta.L1BlockNumber = <<0>>
            /\ txMeta.QueueOrigin = "Sequencer"
            /\ txMeta.RawTransaction = txData.Payload
            /\ txMeta.L1Timestamp = before.L1Timestamp
            /\ txMeta.Index =
                  (IF before.Index = <<>> THEN <<0>> ELSE before.Index)
            /\ txMeta.QueueIndex =
                  (IF before.QueueIndex = <<>> THEN <<0>>
                   ELSE before.QueueIndex)
            /\ txMeta.L1MessageSender = before.L1MessageSender

\* AsMessage returned for a signed transaction with a payload whose metadata
\* had a timestamp, an L1MessageSender and an Index but no QueueIndex.
C17_Witness ==
    /\ asMsg # <<>>
    /\ txData.V # 0
    /\ txData.Payload # <<>>
    /\ asMsg[1].metaBefore.L1Timestamp = 5
    /\ asMsg[1].metaBefore.L1MessageSender # <<>>
    /\ asMsg[1].metaBefore.L1BlockNumber = <<7>>
    /\ asMsg[1].metaBefore.Index = <<3>>
    /\ asMsg[1].metaBefore.QueueIndex = <<>>

\* C18: when Sender fails inside AsMessage, its error is returned with a
\* Message, and the record's metadata is the metadata a call that succeeds
\* leaves: the result of the branch, not the metadata before the call.
C18_MetaKeptOnSenderError ==
    (asMsg # <<>> /\ asMsg[1].err # "nil") =>
        /\ asMsg[1].err = "ErrInvalidSig"
        /\ \E l1 \in MessengerAddresses :
              txMeta = AsMessageMeta(txData, asMsg[1].metaBefore, l1)
        /\ asMsg[1].msg.queueOrigin = txMeta.QueueOrigin
        /\ asMsg[1].msg.l1BlockNumber = txMeta.L1BlockNumber
        /\ asMsg[1].msg.l1Timestamp = txMeta.L1Timestamp
        /\ asMsg[1].msg.nonce = txData.AccountNonce
        /\ asMsg[1].msg.data = txData.Payload

\* Sender failed on an unsigned transaction whose metadata said Sequencer,
\* with a block number, before the call.
C18_Witness ==
    /\ asMsg # <<>>
    /\ asMsg[1].err # "nil"
    /\ txData.V = 0
    /\ asMsg[1].metaBefore.QueueOrigin = "Sequencer"
    /\ asMsg[1].metaBefore.L1BlockNumber = <<7>>
    /\ txMeta # asMsg[1].metaBefore

\* C19: under any sequence of SetTransactionMeta, SetIndex, SetL1Timestamp,
\* SetL1BlockNumber and AsMessage mixed with Hash() and Size() calls, the
\* value Hash() returns and the value Size() returns never change, and
\* they are the hash and the size of the core fields alone.
C19_HashSizeIgnoreMeta ==
    /\ [](/\ HashResult(txHash, txData) = rlpHash(txData)
          /\ SizeResult(txSize, txData) = StorageSize(rlpSize(txData)))
    /\ [][/\ HashResult(txHash', txData') = HashResult(txHash, txData)
          /\ SizeResult(txSize', txData') = SizeResult(txSize, txData)]_vars

\* The hash and the size are memoized on a record whose metadata was set
\* by a setter and then rewritten by AsMessage.
C19_Witness ==
    /\ txHash # <<>>
    /\ txSize # <<>>
    /\ asMsg # <<>>
    /\ asMsg[1].metaBefore.Index = <<3>>
    /\ asMsg[1].metaBefore.QueueOrigin = "L1ToL2"
    /\ txMeta # asMsg[1].metaBefore

-----------------------------------------------------------------------------
(* Hash() and Size() called concurrently on one shared record. Each call   *)
(* is three steps: the atomic Load of the cache cell, the computation from *)
(* tx.data, and the atomic Store. atomic.Value reads and writes a whole    *)
(* value, so a cell holds nothing or one complete value.                   *)

\* The number of concurrent callers.
NumCallers == 2

Callers == 1..NumCallers

IdleCaller == [op |-> "none", pc |-> "idle", v |-> <<>>, ret |-> <<>>]

CacheInit ==
    /\ txData \in TxDatas
    /\ txMeta = NewTransactionMeta
    /\ txHash = <<>>
    /\ txSize = <<>>
    /\ asMsg = <<>>
    /\ callers = [p \in Callers |-> IdleCaller]
    /\ coreMutated = FALSE
    /\ SelIdle /\ FeeIdle /\ PaysIdle /\ DecIdle /\ SigIdle

\* Hash() loading the cell of the size.
HashCellIsSizeCell == txSize

(* tx.hash.Load() and tx.size.Load().                                      *)
HashCell == txHash

SizeCell == txSize

\* A caller enters Hash() or Size().
CacheCall(p, op) ==
    /\ callers[p].pc = "idle"
    /\ callers' = [callers EXCEPT ![p] =
                      [op |-> op, pc |-> "load", v |-> <<>>, ret |-> <<>>]]
    /\ UNCHANGED <<txData, txMeta, txHash, txSize, asMsg, coreMutated>>
    /\ UNCHANGED <<selVars, feeVars, paysVars, decVars, sigVars>>

\* The Load: a stored value is returned, otherwise the caller goes on to
\* compute it.
CacheLoad(p) ==
    /\ callers[p].pc = "load"
    /\ LET cell == IF callers[p].op = "Hash" THEN HashCell ELSE SizeCell
       IN  callers' = [callers EXCEPT ![p] =
                          IF cell # <<>>
                          THEN [@ EXCEPT !.pc = "done", !.ret = cell]
                          ELSE [@ EXCEPT !.pc = "compute"]]
    /\ UNCHANGED <<txData, txMeta, txHash, txSize, asMsg, coreMutated>>
    /\ UNCHANGED <<selVars, feeVars, paysVars, decVars, sigVars>>

\* The computation: rlpHash(tx), or the length of the encoding of tx.data.
CacheCompute(p) ==
    /\ callers[p].pc = "compute"
    /\ callers' = [callers EXCEPT ![p] =
                      [@ EXCEPT !.pc = "store",
                                !.v = IF callers[p].op = "Hash"
                                      THEN <<rlpHash(txData)>>
                                      ELSE <<StorageSize(
                                                 rlpSize(txData))>>]]
    /\ UNCHANGED <<txData, txMeta, txHash, txSize, asMsg, coreMutated>>
    /\ UNCHANGED <<selVars, feeVars, paysVars, decVars, sigVars>>

\* The Store, and the return of the computed value.
CacheStore(p) ==
    /\ callers[p].pc = "store"
    /\ IF callers[p].op = "Hash"
       THEN txHash' = callers[p].v /\ UNCHANGED txSize
       ELSE txSize' = callers[p].v /\ UNCHANGED txHash
    /\ callers' = [callers EXCEPT ![p] =
                      [@ EXCEPT !.pc = "done", !.ret = callers[p].v]]
    /\ UNCHANGED <<txData, txMeta, asMsg, coreMutated>>
    /\ UNCHANGED <<selVars, feeVars, paysVars, decVars, sigVars>>

\* The caller has its value and may call again.
CacheReturn(p) ==
    /\ callers[p].pc = "done"
    /\ callers' = [callers EXCEPT ![p] = IdleCaller]
    /\ UNCHANGED <<txData, txMeta, txHash, txSize, asMsg, coreMutated>>
    /\ UNCHANGED <<selVars, feeVars, paysVars, decVars, sigVars>>

(* SetNonce(nonce), by a caller that mutates the shared record.            *)
CacheSetNonce(nonce) ==
    /\ txData' = [txData EXCEPT !.AccountNonce = nonce]
    /\ coreMutated' = (coreMutated \/ nonce # txData.AccountNonce)
    /\ UNCHANGED <<txMeta, txHash, txSize, asMsg, callers>>
    /\ UNCHANGED <<selVars, feeVars, paysVars, decVars, sigVars>>

CacheNext ==
    \/ \E p \in Callers, op \in {"Hash", "Size"} : CacheCall(p, op)
    \/ \E p \in Callers : CacheLoad(p)
    \/ \E p \in Callers : CacheCompute(p)
    \/ \E p \in Callers : CacheStore(p)
    \/ \E p \in Callers : CacheReturn(p)
    \/ \E nonce \in 0..MaxNonce : CacheSetNonce(nonce)

SpecCache == CacheInit /\ [][CacheNext]_vars

\* The value a call of op returns on a record with core fields d.
DerivedValue(op, d) ==
    IF op = "Hash" THEN rlpHash(d) ELSE StorageSize(rlpSize(d))

\* C7: while the core fields of a shared record are not mutated, in every
\* interleaving of the load, compute and store steps of concurrent Hash()
\* (or Size()) calls every caller returns the same value, the value of the
\* record's fields, and a cache cell that is set holds that one complete
\* value; callers may compute it more than once.
C7_CallersAgree ==
    ~coreMutated =>
        /\ txHash # <<>> => txHash = <<rlpHash(txData)>>
        /\ txSize # <<>> => txSize = <<StorageSize(rlpSize(txData))>>
        /\ \A p \in Callers :
              callers[p].pc = "done" =>
                  callers[p].ret = <<DerivedValue(callers[p].op, txData)>>
        /\ \A p, q \in Callers :
              (/\ callers[p].pc = "done" /\ callers[q].pc = "done"
               /\ callers[p].op = callers[q].op) =>
                  callers[p].ret = callers[q].ret

\* Two callers raced: both computed the hash themselves and both returned,
\* while the size is cached too.
C7_Witness ==
    /\ ~coreMutated
    /\ txSize # <<>>
    /\ \E p, q \in Callers :
          /\ p # q
          /\ callers[p].op = "Hash" /\ callers[q].op = "Hash"
          /\ callers[p].pc = "done" /\ callers[q].pc = "done"
          /\ callers[p].v # <<>> /\ callers[q].v # <<>>

-----------------------------------------------------------------------------
(* Decoding a Transaction: DecodeRLP and UnmarshalJSON fill tx.data from a *)
(* well-formed encoding; only UnmarshalJSON looks at the signature.        *)

\* The order of the signature group, standing for secp256k1's N: R and S
\* are valid from 1 up to, and not including, this value.
secp256k1N == 3

\* The V values an encoding carries: unsigned, the two unprotected values,
\* values below 35 that are neither, and the EIP-155 values of chain 1.
WireVs == {0, 1, 27, 28, 29, 37, 38}

\* The txdata of the well-formed encodings of the model; R and S run from 0
\* to secp256k1N, so below, inside and above the valid range.
WireTxs ==
    [ AccountNonce : {0}, Price : {1}, GasLimit : {21000},
      Recipient : {<<>>, <<"a1">>}, Amount : {0},
      Payload : {<<>>, <<0, 1>>}, V : WireVs,
      R : 0..secp256k1N, S : 0..secp256k1N ]

(* isProtectedV(V), for V of at most 8 bits.                               *)
isProtectedV(V) == V # 27 /\ V # 28

(* deriveChainId(V) for V of at most 64 bits, in uint64 arithmetic.        *)
(* (V - 35) / 2 wraps below 35; the model keeps only what line 319 needs:  *)
(* V - 35 - 2*chainID is the parity of V - 35 modulo 2^64, and 2^64 - 35   *)
(* is odd, so the parity is that of V + 1.                                 *)
ProtectedRecoveryId(V) == (V + 1) % 2

(* The byte V that UnmarshalJSON hands to ValidateSignatureValues.         *)
RecoveryId(V) ==
    IF isProtectedV(V) THEN ProtectedRecoveryId(V) ELSE V - 27

(* crypto.ValidateSignatureValues(v, r, s, false).                         *)
ValidateSignatureValues(v, r, s) ==
    /\ r >= 1 /\ s >= 1
    /\ r < secp256k1N /\ s < secp256k1N
    /\ v \in {0, 1}

\* withSignature looking at V alone.
withSignatureVOnly(d) == d.V # 0

(* withSignature of UnmarshalJSON: some value of the triple is not zero.   *)
withSignature(d) == d.V # 0 \/ d.R # 0 \/ d.S # 0

DecInit ==
    /\ wire \in WireTxs
    /\ decOut = <<>>
    /\ SelIdle /\ FeeIdle /\ PaysIdle /\ TxIdle /\ CacheIdle /\ SigIdle

(* DecodeRLP(s): the encoding is decoded into tx.data and its size stored. *)
DecodeRLP ==
    /\ decOut = <<>>
    /\ txData' = wire
    /\ txSize' = <<StorageSize(rlpSize(wire))>>
    /\ decOut' = <<[path |-> "DecodeRLP", err |-> "nil"]>>
    /\ UNCHANGED <<wire, txMeta, txHash, asMsg>>
    /\ UNCHANGED <<selVars, feeVars, paysVars, cacheVars, sigVars>>

(* UnmarshalJSON(input): tx.data is filled, then a signature that is       *)
(* present is validated.                                                   *)
UnmarshalJSON ==
    /\ decOut = <<>>
    /\ txData' = wire
    /\ decOut' =
          << [ path |-> "UnmarshalJSON",
               err |-> IF /\ withSignature(wire)
                          /\ ~ValidateSignatureValues(RecoveryId(wire.V),
                                                      wire.R, wire.S)
                       THEN "ErrInvalidSig" ELSE "nil" ] >>
    /\ UNCHANGED <<wire, txMeta, txHash, txSize, asMsg>>
    /\ UNCHANGED <<selVars, feeVars, paysVars, cacheVars, sigVars>>

DecNext == DecodeRLP \/ UnmarshalJSON

SpecDecode == DecInit /\ [][DecNext]_vars

\* The decoded triple is not all zero and fails the validation of the
\* signature values.
DecInvalidSignature ==
    /\ wire.V # 0 \/ wire.R # 0 \/ wire.S # 0
    /\ ~ValidateSignatureValues(RecoveryId(wire.V), wire.R, wire.S)

\* C13 as stated: on every decode path, DecodeRLP and UnmarshalJSON, a
\* decoded signature triple that is not all zero and fails the validation
\* makes decoding fail with ErrInvalidSig.
C13_EveryPathValidates ==
    (decOut # <<>> /\ DecInvalidSignature) => decOut[1].err = "ErrInvalidSig"

\* C13 as amended: UnmarshalJSON fails with ErrInvalidSig exactly when the
\* decoded triple is not all zero and fails the validation; DecodeRLP
\* validates nothing and returns the record with any triple, and its size.
C13_OnlyJSONValidates ==
    decOut # <<>> =>
        /\ txData = wire
        /\ decOut[1].path = "UnmarshalJSON" =>
              ((decOut[1].err = "ErrInvalidSig") <=> DecInvalidSignature)
        /\ decOut[1].path = "UnmarshalJSON" =>
              decOut[1].err \in {"nil", "ErrInvalidSig"}
        /\ decOut[1].path = "DecodeRLP" =>
              /\ decOut[1].err = "nil"
              /\ txSize = <<StorageSize(rlpSize(wire))>>

\* UnmarshalJSON has refused a triple whose V is zero and whose R is not.
C13_Witness ==
    /\ decOut # <<>>
    /\ decOut[1].path = "UnmarshalJSON"
    /\ decOut[1].err = "ErrInvalidSig"
    /\ wire.V = 0
    /\ wire.R # 0

-----------------------------------------------------------------------------
(* WithSignature: a signed copy of a record. A record is the core fields,  *)
(* the metadata and the three caches hash, size and from.                  *)

\* What signer.SignatureValues(tx, sig) can return: an error, or r, s, v.
SignatureValues ==
    {[err |-> "ErrInvalidSig"]}
    \cup [ err : {"nil"}, R : {1, 2}, S : {1, 2}, V : {27, 28} ]

\* WithSignature copying the whole record, caches included.
WithSignatureCopyCaches(sv) ==
    /\ IF sv.err # "nil"
       THEN cpy' = <<>>
       ELSE cpy' = << [ data |-> [txData EXCEPT !.R = sv.R, !.S = sv.S,
                                                !.V = sv.V],
                        meta |-> txMeta,
                        hash |-> txHash, size |-> txSize, from |-> <<>> ] >>
    /\ sigErr' = sv.err
    /\ UNCHANGED txVars
    /\ UNCHANGED <<selVars, feeVars, paysVars, decVars, cacheVars>>

(* WithSignature(signer, sig), sv being what signer.SignatureValues        *)
(* returns: nil and the error, or a new record with tx.data and tx.meta    *)
(* copied, R, S, V replaced and zero-valued caches.                        *)
WithSignature(sv) ==
    /\ IF sv.err # "nil"
       THEN cpy' = <<>>
       ELSE cpy' = << [ data |-> [txData EXCEPT !.R = sv.R, !.S = sv.S,
                                                !.V = sv.V],
                        meta |-> txMeta,
                        hash |-> <<>>, size |-> <<>>, from |-> <<>> ] >>
    /\ sigErr' = sv.err
    /\ UNCHANGED txVars
    /\ UNCHANGED <<selVars, feeVars, paysVars, decVars, cacheVars>>

(* Hash() on the record WithSignature returned.                            *)
CpyHashCall ==
    /\ cpy # <<>>
    /\ cpy' = << [cpy[1] EXCEPT
                    !.hash = <<HashResult(cpy[1].hash, cpy[1].data)>>] >>
    /\ UNCHANGED <<sigErr, txVars>>
    /\ UNCHANGED <<selVars, feeVars, paysVars, decVars, cacheVars>>

(* Size() on the record WithSignature returned.                            *)
CpySizeCall ==
    /\ cpy # <<>>
    /\ cpy' = << [cpy[1] EXCEPT
                    !.size = <<SizeResult(cpy[1].size, cpy[1].data)>>] >>
    /\ UNCHANGED <<sigErr, txVars>>
    /\ UNCHANGED <<selVars, feeVars, paysVars, decVars, cacheVars>>

\* A new record: its index is set, it is hashed, sized and signed, and the
\* signed copies are hashed and sized, in any order.
SigInit ==
    /\ txData \in TxDatas
    /\ txMeta = NewTransactionMeta
    /\ txHash = <<>>
    /\ txSize = <<>>
    /\ asMsg = <<>>
    /\ cpy = <<>>
    /\ sigErr = "pending"
    /\ SelIdle /\ FeeIdle /\ PaysIdle /\ DecIdle /\ CacheIdle

SigNext ==
    \/ \E sv \in SignatureValues : WithSignature(sv)
    \/ CpyHashCall
    \/ CpySizeCall
    \/ TxHashCall
    \/ TxSizeCall
    \/ \E index \in {0, 3} : SetIndex(index)

SpecSig == SigInit /\ [][SigNext]_vars

\* C26: WithSignature returns a new record that copies the core fields and
\* the metadata, replaces R, S and V alone, and starts with empty hash, size
\* and sender caches; the original's core fields, metadata and caches stay
\* as they were; on a signer error it returns no record and the original is
\* unchanged. So Hash() on the new record is the hash of its own fields,
\* with the new signature, whether or not the original had its hash stored.
C26_WithSignatureFrame ==
    /\ [](cpy # <<>> =>
            /\ cpy[1].hash \in {<<>>, <<rlpHash(cpy[1].data)>>}
            /\ cpy[1].size \in {<<>>, <<StorageSize(rlpSize(cpy[1].data))>>})
    /\ [][\A sv \in SignatureValues : WithSignature(sv) =>
            /\ txVars' = txVars
            /\ sigErr' = sv.err
            /\ IF sv.err # "nil"
               THEN cpy' = <<>>
               ELSE /\ cpy' # <<>>
                    /\ cpy'[1].data.R = sv.R
                    /\ cpy'[1].data.S = sv.S
                    /\ cpy'[1].data.V = sv.V
                    /\ [cpy'[1].data EXCEPT !.R = txData.R, !.S = txData.S,
                                            !.V = txData.V] = txData
                    /\ cpy'[1].meta = txMeta
                    /\ cpy'[1].hash = <<>>
                    /\ cpy'[1].size = <<>>
                    /\ cpy'[1].from = <<>>]_vars

\* The original had its hash stored before it was signed; the copy carries
\* set metadata and another signature, and Hash() on the copy has stored a
\* hash that differs from the original's.
C26_Witness ==
    /\ txHash # <<>>
    /\ sigErr = "nil"
    /\ cpy # <<>>
    /\ cpy[1].hash # <<>>
    /\ cpy[1].hash # txHash
    /\ cpy[1].meta = txMeta
    /\ txMeta.Index = <<3>>
    /\ txData.V = 27 /\ cpy[1].data.V = 28

====
